---- MODULE Spec2Model ----
(***************************************************************************)
(* Model of the mesh messenger of src/mesh/dmasst.py: the message store,   *)
(* the relay engine (on_incoming_message), the SOS resend scheduler        *)
(* (sos_resender_task), the connectivity forwarder (SignalNotifier.run)    *)
(* and the local /send command, for a small network of nodes that share    *)
(* one broadcast domain.                                                   *)
(*                                                                         *)
(* Every handler runs without suspension in the source (no await between   *)
(* its first and last statement), so each is one atomic action. The older  *)
(* variant src/dmasst.py, whose receive handler sleeps between the insert  *)
(* and the relay, is modelled next to it with the handler in two steps.    *)
(* Wall-clock fields (timestamp, received_at) are left out: no modelled    *)
(* decision reads them.                                                    *)
(*                                                                         *)
(* Three variables observe the run and steer nothing: hist tallies what    *)
(* each node did for each message id, last records the step just taken     *)
(* (its operation, node, packet and output), and before holds the state    *)
(* that step started from. A property of a step is then a state predicate: *)
(* it relates before, the state the step started from, to the variables,   *)
(* the state the step produced.                                            *)
(***************************************************************************)
EXTENDS Integers, Sequences, FiniteSets, TLC

VARIABLES store, air, seen_online, notifier_up, receiver_up, suspended, nextId,
          hist, last, before

vars == <<store, air, seen_online, notifier_up, receiver_up, suspended, nextId,
          hist, last, before>>

(* ------------------------------ constants ------------------------------ *)

MESSAGE_TTL == 6

MAX_SOS_RESENDS == 6

(* ------------------------------- bounds -------------------------------- *)

\* number of messages created in the whole run (each gets a fresh uuid4)
MaxMsgs == 1

\* number of messages created in a run of the one-node specification SpecA
MaxMsgsA == 2

\* cap on the number of upstream invocations in the whole run
MaxUpstream == 2

\* the nodes running the program
Nodes == {"A", "B"}

\* a host outside Nodes that also broadcasts on the port
ForeignNode == "Z"

\* destinations a /send command may name ("" is a flood to all)
Dests == {"", "B"}

\* kinds a /send command may name
Subtypes == {"SOS", "ALERT"}

\* (hops, ttl) a datagram of the foreign host may carry
ForeignHopsTtl == {<<MESSAGE_TTL - 1, MESSAGE_TTL>>}

AllIds == 1..(IF MaxMsgsA > MaxMsgs THEN MaxMsgsA ELSE MaxMsgs)

(* ------------------------------ utilities ------------------------------ *)

\* dict.get(f, d)
Get(m, f, d) == IF f \in DOMAIN m THEN m[f] ELSE d

NoPkt == [type |-> "NONE"]

\* per node and message id: how often insert_message returned True, and how
\* many relay, ack and resend packets were handed to send_packet, and how
\* often the upstream channel was invoked
NoHist == [ins |-> 0, relay |-> 0, ack |-> 0, resend |-> 0, upstream |-> 0]

RECURSIVE SumOver(_, _)
SumOver(S, f) ==
    IF S = {} THEN 0 ELSE LET x == CHOOSE y \in S : TRUE IN f[x] + SumOver(S \ {x}, f)

\* the program state a step starts from (main_loop's db, signal and tasks, and
\* the tallies kept of them), which every action stores in `before`
Snapshot ==
    [store |-> store, air |-> air, seen_online |-> seen_online,
     notifier_up |-> notifier_up, receiver_up |-> receiver_up,
     suspended |-> suspended, nextId |-> nextId, hist |-> hist]

(* -------------------------------- Storage ------------------------------ *)

HasId(s, mid) == \E i \in DOMAIN s : s[i].id = mid

\* the row inserted by insert_message for dict msg
NewRow(msg) ==
    [id           |-> msg["id"],
     origin_id    |-> Get(msg, "origin_id", ""),
     origin_label |-> Get(msg, "origin_label", ""),
     dest_id      |-> Get(msg, "dest_id", ""),
     type         |-> Get(msg, "type", ""),
     payload      |-> Get(msg, "payload", ""),
     hops         |-> Get(msg, "hops", 0),
     ttl          |-> Get(msg, "ttl", MESSAGE_TTL),
     forwarded    |-> Get(msg, "forwarded", 0),
     acknowledged |-> Get(msg, "acknowledged", 0),
     resend_count |-> Get(msg, "resend_count", 0)]

\* variant of InsertOk: a table without the PRIMARY KEY conflict
InsertOkNoKey(s, msg) == TRUE

\* variant of InsertOk: the key of the table is (id, hops)
InsertOkKeyWithHops(s, msg) ==
    ~\E i \in DOMAIN s : s[i].id = msg["id"] /\ s[i].hops = Get(msg, "hops", 0)

\* insert_message: the return value (False on the PRIMARY KEY conflict)
InsertOk(s, msg) == ~HasId(s, msg["id"])

\* insert_message: the table afterwards
InsertMessage(s, msg) == IF InsertOk(s, msg) THEN Append(s, NewRow(msg)) ELSE s

\* variant of MarkForwarded: SET forwarded = 1 - forwarded
MarkForwardedToggle(s, mid) ==
    [i \in DOMAIN s |-> IF s[i].id = mid THEN [s[i] EXCEPT !.forwarded = 1 - @] ELSE s[i]]

MarkForwarded(s, mid) ==
    [i \in DOMAIN s |-> IF s[i].id = mid THEN [s[i] EXCEPT !.forwarded = 1] ELSE s[i]]

\* variant of MarkAcknowledged: SET acknowledged = 1, forwarded = 1
MarkAcknowledgedAndForwarded(s, mid) ==
    [i \in DOMAIN s |-> IF s[i].id = mid
                        THEN [s[i] EXCEPT !.acknowledged = 1, !.forwarded = 1]
                        ELSE s[i]]

\* variant of MarkAcknowledged: SET acknowledged = acknowledged + 1
MarkAcknowledgedCount(s, mid) ==
    [i \in DOMAIN s |-> IF s[i].id = mid THEN [s[i] EXCEPT !.acknowledged = @ + 1] ELSE s[i]]

MarkAcknowledged(s, mid) ==
    [i \in DOMAIN s |-> IF s[i].id = mid THEN [s[i] EXCEPT !.acknowledged = 1] ELSE s[i]]

\* variant of IncrementResend: the UPDATE changes no row
IncrementResendNoop(s, mid) == s

\* variant of IncrementResend: the resend also spends one unit of ttl
IncrementResendSpendsTtl(s, mid) ==
    [i \in DOMAIN s |-> IF s[i].id = mid
                        THEN [s[i] EXCEPT !.resend_count = @ + 1, !.ttl = @ - 1]
                        ELSE s[i]]

IncrementResend(s, mid) ==
    [i \in DOMAIN s |-> IF s[i].id = mid THEN [s[i] EXCEPT !.resend_count = @ + 1] ELSE s[i]]

GetMessage(s, mid) == SelectSeq(s, LAMBDA r : r.id = mid)

\* variant of IsPending: AND in place of OR in the WHERE clause
IsPendingAnd(r) == r.forwarded = 0 /\ (r.type = "SOS" /\ r.acknowledged = 0)

IsPending(r) == r.forwarded = 0 \/ (r.type = "SOS" /\ r.acknowledged = 0)

GetPendingMessages(s) == SelectSeq(s, IsPending)

\* variant of IsUnackedSos: the query without `acknowledged=0`
IsUnackedSosAnyAck(r) == r.type = "SOS" /\ r.ttl > 0

IsUnackedSos(r) == r.type = "SOS" /\ r.acknowledged = 0 /\ r.ttl > 0

GetUnacknowledgedSos(s) == SelectSeq(s, IsUnackedSos)

(* ------------------------------- UDPPeer ------------------------------- *)

\* send_packet: the datagram reaches the broadcast domain when sendto
\* succeeds (ok), and is dropped with a log line when sendto raises.
\* outs is the sequence of packets handed to send_packet in one handler run,
\* oks[i] tells whether the i-th sendto succeeded.
SendPackets(a, outs, oks) == a \cup {outs[i] : i \in {j \in DOMAIN outs : oks[j]}}

\* variant of SendLog: send_packet lets the sendto exception through, so the
\* caller hands over nothing after its first failed send
SendLogStopsAtFailure(outs, oks) ==
    [i \in {j \in DOMAIN outs : \A k \in 1..(j - 1) : oks[k]} |->
       [pkt |-> outs[i], ok |-> oks[i]]]

SendLog(outs, oks) == [i \in DOMAIN outs |-> [pkt |-> outs[i], ok |-> oks[i]]]

(* ---------------------------- relay engine ----------------------------- *)

AckPacket(n, mid) == [type |-> "DM_ACK", orig_msg_id |-> mid, from_node |-> n]

\* variant of RelayPacket: the relay also spends one unit of ttl
RelayPacketSpendsTtl(msg, hops) ==
    [f \in DOMAIN msg \cup {"hops"} |->
       IF f = "hops" THEN hops + 1 ELSE IF f = "ttl" THEN msg[f] - 1 ELSE msg[f]]

\* outgoing = dict(msg); outgoing["hops"] = hops + 1
RelayPacket(msg, hops) ==
    [f \in DOMAIN msg \cup {"hops"} |-> IF f = "hops" THEN hops + 1 ELSE msg[f]]

\* the row dict on_incoming_message hands to insert_message
IncomingRow(msg) ==
    [id           |-> msg["id"],
     origin_id    |-> Get(msg, "origin_id", ""),
     origin_label |-> Get(msg, "origin_label", ""),
     dest_id      |-> Get(msg, "dest_id", ""),
     type         |-> Get(msg, "subtype", "SOS"),
     payload      |-> Get(msg, "payload", ""),
     hops         |-> Get(msg, "hops", 0),
     ttl          |-> Get(msg, "ttl", MESSAGE_TTL)]

\* variant of NotForMe: the handler without the destination filter
NotForMeNever(n, msg) == FALSE

\* the destination filter of the DM_MSG branch
NotForMe(n, msg) == Get(msg, "dest_id", "") # "" /\ Get(msg, "dest_id", "") # n

\* hops < ttl
MayRelay(hops, ttl) == hops < ttl

Nothing(s) == [store |-> s, inserted |-> FALSE, acks |-> <<>>, relays |-> <<>>]

\* variant of OnDmMsg: the `else: return` after a failed insert is missing
OnDmMsgNoStop(n, s, msg) ==
    IF Get(msg, "dest_id", "") # "" /\ Get(msg, "dest_id", "") # n THEN Nothing(s)
    ELSE IF "id" \notin DOMAIN msg THEN Nothing(s)
    ELSE [store    |-> InsertMessage(s, IncomingRow(msg)),
          inserted |-> InsertOk(s, IncomingRow(msg)),
          acks     |-> <<AckPacket(n, msg["id"])>>,
          relays   |-> IF Get(msg, "hops", 0) < Get(msg, "ttl", MESSAGE_TTL)
                       THEN <<RelayPacket(msg, Get(msg, "hops", 0))>>
                       ELSE <<>>]

\* variant of OnDmMsg: only a message of kind SOS is acknowledged
OnDmMsgAckSosOnly(n, s, msg) ==
    IF NotForMe(n, msg) THEN Nothing(s)
    ELSE IF "id" \notin DOMAIN msg THEN Nothing(s)
    ELSE IF ~InsertOk(s, IncomingRow(msg)) THEN Nothing(s)
    ELSE [store    |-> InsertMessage(s, IncomingRow(msg)),
          inserted |-> TRUE,
          acks     |-> IF Get(msg, "subtype", "SOS") = "SOS"
                       THEN <<AckPacket(n, msg["id"])>> ELSE <<>>,
          relays   |-> IF MayRelay(Get(msg, "hops", 0), Get(msg, "ttl", MESSAGE_TTL))
                       THEN <<RelayPacket(msg, Get(msg, "hops", 0))>>
                       ELSE <<>>]

\* variant of OnDmMsg: a duplicate is acknowledged again before the return
OnDmMsgAcksDuplicates(n, s, msg) ==
    IF NotForMe(n, msg) THEN Nothing(s)
    ELSE IF "id" \notin DOMAIN msg THEN Nothing(s)
    ELSE IF ~InsertOk(s, IncomingRow(msg))
         THEN [Nothing(s) EXCEPT !.acks = <<AckPacket(n, msg["id"])>>]
    ELSE [store    |-> InsertMessage(s, IncomingRow(msg)),
          inserted |-> TRUE,
          acks     |-> <<AckPacket(n, msg["id"])>>,
          relays   |-> IF MayRelay(Get(msg, "hops", 0), Get(msg, "ttl", MESSAGE_TTL))
                       THEN <<RelayPacket(msg, Get(msg, "hops", 0))>>
                       ELSE <<>>]

\* the DM_MSG branch: what the handler does to table s of node n
OnDmMsg(n, s, msg) ==
    IF NotForMe(n, msg) THEN Nothing(s)
    ELSE IF "id" \notin DOMAIN msg THEN Nothing(s)
    ELSE IF ~InsertOk(s, IncomingRow(msg)) THEN Nothing(s)
    ELSE [store    |-> InsertMessage(s, IncomingRow(msg)),
          inserted |-> TRUE,
          acks     |-> <<AckPacket(n, msg["id"])>>,
          relays   |-> IF MayRelay(Get(msg, "hops", 0), Get(msg, "ttl", MESSAGE_TTL))
                       THEN <<RelayPacket(msg, Get(msg, "hops", 0))>>
                       ELSE <<>>]

\* variant of OnDmAck: an ack for an id the table lacks creates the record
OnDmAckUpsert(n, s, msg) ==
    IF "orig_msg_id" \notin DOMAIN msg THEN Nothing(s)
    ELSE IF GetMessage(s, msg["orig_msg_id"]) # <<>>
         THEN [Nothing(s) EXCEPT !.store = MarkAcknowledged(s, msg["orig_msg_id"])]
         ELSE [Nothing(s) EXCEPT !.store =
                 Append(s, NewRow([id |-> msg["orig_msg_id"], acknowledged |-> 1]))]

\* variant of OnDmAck: an ack that marked a record is broadcast again
OnDmAckRelay(n, s, msg) ==
    IF "orig_msg_id" \notin DOMAIN msg THEN Nothing(s)
    ELSE IF GetMessage(s, msg["orig_msg_id"]) # <<>>
         THEN [Nothing(s) EXCEPT !.store = MarkAcknowledged(s, msg["orig_msg_id"]),
                                 !.relays = <<msg>>]
         ELSE Nothing(s)

\* the DM_ACK branch
OnDmAck(n, s, msg) ==
    IF "orig_msg_id" \notin DOMAIN msg THEN Nothing(s)
    ELSE IF GetMessage(s, msg["orig_msg_id"]) # <<>>
         THEN [Nothing(s) EXCEPT !.store = MarkAcknowledged(s, msg["orig_msg_id"])]
         ELSE Nothing(s)

OnIncomingMessage(n, s, msg) ==
    IF Get(msg, "type", "") = "ANNOUNCE" THEN Nothing(s)
    ELSE IF Get(msg, "type", "") = "DM_MSG" THEN OnDmMsg(n, s, msg)
    ELSE IF Get(msg, "type", "") = "DM_ACK" THEN OnDmAck(n, s, msg)
    ELSE Nothing(s)

\* datagrams without a message id that may arrive at any time
StrayPackets ==
    { [type |-> "ANNOUNCE", node_id |-> ForeignNode, label |-> ForeignNode],
      [type |-> "DM_MSG", origin_id |-> ForeignNode, origin_label |-> ForeignNode,
       dest_id |-> "", subtype |-> "SOS", payload |-> "help", hops |-> 0,
       ttl |-> MESSAGE_TTL] }

\* the id a packet is about (0 when it names none)
PktId(p) == IF "id" \in DOMAIN p THEN p["id"]
            ELSE IF "orig_msg_id" \in DOMAIN p THEN p["orig_msg_id"] ELSE 0

\* a datagram whose bytes json.loads rejects
Undecodable == [type |-> "NOT_JSON"]

Decodes(p) == p # Undecodable

\* int(msg.get(f, ...)) raises: the packet carries under key f a JSON value
\* that int() rejects; the record names the key under not_int and holds no
\* value under f
IntRaises(msg, f) == Get(msg, "not_int", "") = f

\* on_incoming_message raises: the DM_MSG passed the destination filter and
\* the id check, and the conversion of hops or ttl fails before the insert
HandlerRaises(n, msg) ==
    /\ Get(msg, "type", "") = "DM_MSG"
    /\ ~NotForMe(n, msg)
    /\ "id" \in DOMAIN msg
    /\ IntRaises(msg, "hops") \/ IntRaises(msg, "ttl")

\* how one pass of the receiver's loop body ends
Outcome(n, p) ==
    IF ~Decodes(p) THEN "invalid"
    ELSE IF HandlerRaises(n, p) THEN "raised"
    ELSE "handled"

\* variant of LoopGoesOn: the `except Exception` clause is missing
LoopGoesOnNoCatch(outcome) == outcome \in {"handled", "invalid"}

\* the loop takes its next pass after `continue` (invalid datagram), after
\* the handler returned, and after `except Exception` (handler raised)
LoopGoesOn(outcome) == outcome \in {"handled", "invalid", "raised"}

\* datagrams of a host outside Nodes that make the loop body end early
BadDatagrams ==
    { Undecodable,
      [type |-> "DM_MSG", id |-> 1, origin_id |-> ForeignNode,
       origin_label |-> ForeignNode, dest_id |-> "", subtype |-> "SOS",
       payload |-> "help", ttl |-> MESSAGE_TTL, not_int |-> "hops"] }

\* receiver: one datagram is read and handed to on_incoming_message
Receive(n, p) ==
    /\ receiver_up[n]
    /\ \E r \in {IF Outcome(n, p) = "handled"
                 THEN OnIncomingMessage(n, store[n], p) ELSE Nothing(store[n])} :
       \E outs \in {r.acks \o r.relays} :
       \E oks \in [DOMAIN outs -> BOOLEAN] :
          /\ receiver_up' = [receiver_up EXCEPT ![n] = LoopGoesOn(Outcome(n, p))]
          /\ store' = [store EXCEPT ![n] = r.store]
          /\ air' = SendPackets(air, outs, oks)
          /\ hist' = IF PktId(p) \in AllIds
                     THEN [hist EXCEPT ![n][PktId(p)] =
                             [@ EXCEPT !.ins = @ + (IF r.inserted THEN 1 ELSE 0),
                                       !.ack = @ + Len(r.acks),
                                       !.relay = @ + Len(r.relays)]]
                     ELSE hist
          /\ last' = [op |-> "recv", node |-> n, pkt |-> p, inserted |-> r.inserted,
                      out |-> SendLog(outs, oks), batch |-> <<>>, online |-> FALSE,
                      pre |-> GetMessage(store[n], PktId(p)), failed |-> <<>>]
          /\ before' = Snapshot
          /\ UNCHANGED <<suspended, seen_online, notifier_up, nextId>>

(* ----------------------------- local /send ----------------------------- *)

BuildOutgoingMessage(mid, origin_id, origin_label, subtype, payload, dest_id, ttl) ==
    [type |-> "DM_MSG", id |-> mid, origin_id |-> origin_id,
     origin_label |-> origin_label, dest_id |-> dest_id, subtype |-> subtype,
     payload |-> payload, hops |-> 0, ttl |-> ttl]

\* the row dict the /send command hands to insert_message
LocalRow(n, msg) ==
    [id |-> msg["id"], origin_id |-> n, origin_label |-> n, dest_id |-> msg["dest_id"],
     type |-> msg["subtype"], payload |-> msg["payload"], hops |-> 0, ttl |-> msg["ttl"],
     forwarded |-> 0, acknowledged |-> 0, resend_count |-> 0]

\* variant of Send: the packet is broadcast without the local insert
SendNoInsert(n, subtype, dest) ==
    /\ LET msg == BuildOutgoingMessage(nextId, n, n, subtype, "help", dest, MESSAGE_TTL)
       IN  \E ok \in BOOLEAN :
             /\ air' = SendPackets(air, <<msg>>, <<ok>>)
             /\ last' = [op |-> "send", node |-> n, pkt |-> msg, inserted |-> FALSE,
                         out |-> SendLog(<<msg>>, <<ok>>), batch |-> <<>>,
                         online |-> FALSE, pre |-> <<>>, failed |-> <<>>]
    /\ nextId' = nextId + 1
    /\ before' = Snapshot
    /\ UNCHANGED <<suspended, store, hist, seen_online, notifier_up, receiver_up>>

Send(n, subtype, dest) ==
    /\ LET msg == BuildOutgoingMessage(nextId, n, n, subtype, "help", dest, MESSAGE_TTL)
           row == LocalRow(n, msg)
       IN  \E ok \in BOOLEAN :
             /\ store' = [store EXCEPT ![n] = InsertMessage(@, row)]
             /\ air' = SendPackets(air, <<msg>>, <<ok>>)
             /\ hist' = [hist EXCEPT ![n][nextId].ins =
                           @ + (IF InsertOk(store[n], row) THEN 1 ELSE 0)]
             /\ last' = [op |-> "send", node |-> n, pkt |-> msg,
                         inserted |-> InsertOk(store[n], row),
                         out |-> SendLog(<<msg>>, <<ok>>), batch |-> <<>>,
                         online |-> FALSE, pre |-> <<>>, failed |-> <<>>]
    /\ nextId' = nextId + 1
    /\ before' = Snapshot
    /\ UNCHANGED <<suspended, seen_online, notifier_up, receiver_up>>

\* a host outside Nodes creates a message and broadcasts it
ForeignSend(dest, hops, ttl) ==
    /\ LET msg == [BuildOutgoingMessage(nextId, ForeignNode, ForeignNode, "SOS", "help",
                                        dest, ttl) EXCEPT !.hops = hops]
       IN  /\ air' = air \cup {msg}
           /\ last' = [op |-> "foreign", node |-> ForeignNode, pkt |-> msg,
                       inserted |-> FALSE, out |-> <<>>, batch |-> <<>>, online |-> FALSE,
                       pre |-> <<>>, failed |-> <<>>]
    /\ nextId' = nextId + 1
    /\ before' = Snapshot
    /\ UNCHANGED <<suspended, store, seen_online, notifier_up, receiver_up, hist>>

(* ---------------------------- SOS resender ----------------------------- *)

\* variant of Resendable: a record that was resent once is skipped
ResendableOnce(n, r) == r.origin_id = n /\ r.resend_count < 1

\* variant of Resendable: `>` in place of `>=` in the cap check
ResendableOffByOne(n, r) == r.origin_id = n /\ r.resend_count <= MAX_SOS_RESENDS

\* variant of Resendable: the cap check is missing
ResendableNoCap(n, r) == r.origin_id = n

\* variant of Resendable: the origin check is missing
ResendableAnyOrigin(n, r) == r.resend_count < MAX_SOS_RESENDS

\* the rows of one cycle that pass both `continue` checks
Resendable(n, r) == r.origin_id = n /\ r.resend_count < MAX_SOS_RESENDS

\* variant of ResendPacket: hops is copied from the stored record
ResendPacketKeepsHops(r) ==
    [type |-> "DM_MSG", id |-> r.id, origin_id |-> r.origin_id,
     origin_label |-> r.origin_label, dest_id |-> r.dest_id, subtype |-> r.type,
     payload |-> r.payload, hops |-> r.hops, ttl |-> r.ttl]

ResendPacket(r) ==
    [type |-> "DM_MSG", id |-> r.id, origin_id |-> r.origin_id,
     origin_label |-> r.origin_label, dest_id |-> r.dest_id, subtype |-> r.type,
     payload |-> r.payload, hops |-> 0, ttl |-> r.ttl]

\* variant of ResendRows: the query ends in LIMIT 1
ResendRowsFirstOnly(n, s) ==
    LET rows == SelectSeq(GetUnacknowledgedSos(s), LAMBDA r : Resendable(n, r))
    IN  IF rows = <<>> THEN <<>> ELSE <<Head(rows)>>

ResendRows(n, s) == SelectSeq(GetUnacknowledgedSos(s), LAMBDA r : Resendable(n, r))

RECURSIVE IncrementAll(_, _)
IncrementAll(s, rows) ==
    IF rows = <<>> THEN s
    ELSE IncrementAll(IncrementResend(s, Head(rows).id), Tail(rows))

\* one pass of the while-loop body of sos_resender_task
SosCycle(n) ==
    LET rows == ResendRows(n, store[n])
        outs == [i \in DOMAIN rows |-> ResendPacket(rows[i])]
        ids  == {rows[i].id : i \in DOMAIN rows}
    IN  \E oks \in [DOMAIN outs -> BOOLEAN] :
          /\ store' = [store EXCEPT ![n] = IncrementAll(@, rows)]
          /\ air' = SendPackets(air, outs, oks)
          /\ hist' = [hist EXCEPT ![n] =
                        [m \in AllIds |->
                           IF m \in ids THEN [@[m] EXCEPT !.resend = @ + 1] ELSE @[m]]]
          /\ last' = [op |-> "sos", node |-> n, pkt |-> NoPkt, inserted |-> FALSE,
                      out |-> SendLog(outs, oks), batch |-> <<>>, online |-> FALSE,
                      pre |-> <<>>, failed |-> <<>>]
          /\ before' = Snapshot
          /\ UNCHANGED <<suspended, seen_online, notifier_up, receiver_up, nextId>>

(* -------------------------- SignalNotifier ----------------------------- *)

\* variant of MarkAllForwarded: mark_forwarded sits after the for loop
MarkAllForwardedLastOnly(s, ids) ==
    IF ids = <<>> THEN s ELSE MarkForwarded(s, ids[Len(ids)])

\* variant of MarkAllForwarded: a forwarded record is purged from the table
MarkAllForwardedPurge(s, ids) ==
    SelectSeq(s, LAMBDA r : \A k \in DOMAIN ids : ids[k] # r.id)

RECURSIVE MarkAllForwarded(_, _)
MarkAllForwarded(s, ids) ==
    IF ids = <<>> THEN s ELSE MarkAllForwarded(MarkForwarded(s, Head(ids)), Tail(ids))

TotalUpstream ==
    SumOver(Nodes \X AllIds, [x \in Nodes \X AllIds |-> hist[x[1]][x[2]].upstream])

\* variant of Edge: the batch runs on every online probe
EdgeEveryOnline(online, seen) == online

\* `online and not self._seen_online`
Edge(online, seen) == online /\ ~seen

\* one pass of the while-loop body of SignalNotifier.run, the probe
\* answering `online`, every forwarding print going through
Probe(n, online) ==
    LET pending == IF Edge(online, seen_online[n])
                   THEN GetPendingMessages(store[n]) ELSE <<>>
        ids     == [i \in DOMAIN pending |-> pending[i].id]
    IN  /\ notifier_up[n]
        /\ TotalUpstream + Len(ids) <= MaxUpstream
        /\ store' = [store EXCEPT ![n] = MarkAllForwarded(@, ids)]
        /\ seen_online' = [seen_online EXCEPT ![n] = online]
        /\ hist' = [hist EXCEPT ![n] =
                      [m \in AllIds |->
                         IF \E i \in DOMAIN ids : ids[i] = m
                         THEN [@[m] EXCEPT !.upstream = @ + 1] ELSE @[m]]]
        /\ last' = [op |-> "probe", node |-> n, pkt |-> NoPkt, inserted |-> FALSE,
                    out |-> <<>>, batch |-> ids, online |-> online,
                    pre |-> <<>>, failed |-> <<>>]
        /\ before' = Snapshot
        /\ UNCHANGED <<suspended, air, notifier_up, receiver_up, nextId>>

(* ------------------------------ the system ----------------------------- *)

\* variant of Init: SignalNotifier.__init__ sets _seen_online = True
InitSeenOnline ==
    /\ store = [n \in Nodes |-> <<>>]
    /\ air = {}
    /\ seen_online = [n \in Nodes |-> TRUE]
    /\ notifier_up = [n \in Nodes |-> TRUE]
    /\ receiver_up = [n \in Nodes |-> TRUE]
    /\ suspended = [n \in Nodes |-> NoPkt]
    /\ nextId = 1
    /\ hist = [n \in Nodes |-> [i \in AllIds |-> NoHist]]
    /\ last = [op |-> "init", node |-> "", pkt |-> NoPkt, inserted |-> FALSE,
               out |-> <<>>, batch |-> <<>>, online |-> FALSE,
               pre |-> <<>>, failed |-> <<>>]
    /\ before = Snapshot

Init ==
    /\ store = [n \in Nodes |-> <<>>]
    /\ air = {}
    /\ seen_online = [n \in Nodes |-> FALSE]
    /\ notifier_up = [n \in Nodes |-> TRUE]
    /\ receiver_up = [n \in Nodes |-> TRUE]
    /\ suspended = [n \in Nodes |-> NoPkt]
    /\ nextId = 1
    /\ hist = [n \in Nodes |-> [i \in AllIds |-> NoHist]]
    /\ last = [op |-> "init", node |-> "", pkt |-> NoPkt, inserted |-> FALSE,
               out |-> <<>>, batch |-> <<>>, online |-> FALSE,
               pre |-> <<>>, failed |-> <<>>]
    /\ before = Snapshot

DoSend ==
    /\ nextId <= MaxMsgs
    /\ \E n \in Nodes, st \in Subtypes, d \in Dests : Send(n, st, d)

DoForeignSend ==
    /\ nextId <= MaxMsgs
    /\ \E d \in Dests, ht \in ForeignHopsTtl : ForeignSend(d, ht[1], ht[2])

DoReceive == \E n \in Nodes : \E p \in air \cup StrayPackets : Receive(n, p)

DoSosCycle == \E n \in Nodes : SosCycle(n)

DoProbe == \E n \in Nodes, online \in BOOLEAN : Probe(n, online)

Next == DoSend \/ DoForeignSend \/ DoReceive \/ DoSosCycle \/ DoProbe

Spec == Init /\ [][Next]_vars

(* ------------- one node, with a failing upstream print ----------------- *)

\* the node that runs in SpecA
NodeA == "A"

\* wire fields of a DM_MSG, other than id, that the foreign host may leave out
MissingFields == {"origin_id", "subtype", "payload", "hops", "ttl"}

\* dict msg without key f
Without(msg, f) == [g \in DOMAIN msg \ {f} |-> msg[g]]

\* a host outside Nodes broadcasts a DM_MSG that lacks wire field f
ForeignMalformed(f) ==
    /\ LET msg == Without(BuildOutgoingMessage(nextId, ForeignNode, ForeignNode, "ALERT",
                                               "help", "", MESSAGE_TTL), f)
       IN  /\ air' = air \cup {msg}
           /\ last' = [op |-> "foreign", node |-> ForeignNode, pkt |-> msg,
                       inserted |-> FALSE, out |-> <<>>, batch |-> <<>>, online |-> FALSE,
                       pre |-> <<>>, failed |-> <<>>]
    /\ nextId' = nextId + 1
    /\ before' = Snapshot
    /\ UNCHANGED <<suspended, store, seen_online, notifier_up, receiver_up, hist>>

\* a pass of SignalNotifier.run on the edge in which the forwarding print of
\* the k-th pending record raises (stdout is closed, or cannot encode a
\* string of the record): the records before it are marked, the k-th is
\* not, and the exception leaves run(), which ends the task before
\* `_seen_online = True`
ProbeFail(n, k) ==
    LET pending == GetPendingMessages(store[n])
        ids     == [i \in DOMAIN pending |-> pending[i].id]
        done    == SubSeq(ids, 1, k - 1)
    IN  /\ notifier_up[n]
        /\ Edge(TRUE, seen_online[n])
        /\ k \in DOMAIN ids
        /\ TotalUpstream + Len(done) <= MaxUpstream
        /\ store' = [store EXCEPT ![n] = MarkAllForwarded(@, done)]
        /\ notifier_up' = [notifier_up EXCEPT ![n] = FALSE]
        /\ hist' = [hist EXCEPT ![n] =
                      [m \in AllIds |->
                         IF \E i \in DOMAIN done : done[i] = m
                         THEN [@[m] EXCEPT !.upstream = @ + 1] ELSE @[m]]]
        /\ last' = [op |-> "probe", node |-> n, pkt |-> NoPkt, inserted |-> FALSE,
                    out |-> <<>>, batch |-> done, online |-> TRUE,
                    pre |-> <<>>, failed |-> <<ids[k]>>]
        /\ before' = Snapshot
        /\ UNCHANGED <<suspended, air, seen_online, receiver_up, nextId>>

DoSendA ==
    /\ nextId <= MaxMsgsA
    /\ \E st \in Subtypes : Send(NodeA, st, "")

DoForeignMalformed ==
    /\ nextId <= MaxMsgsA
    /\ \E f \in MissingFields : ForeignMalformed(f)

DoReceiveA == \E p \in air : Receive(NodeA, p)

DoProbeA == \E online \in BOOLEAN : Probe(NodeA, online)

DoProbeFailA == \E k \in 1..MaxMsgsA : ProbeFail(NodeA, k)

NextA == DoSendA \/ DoForeignMalformed \/ DoReceiveA \/ DoProbeA \/ DoProbeFailA

\* the runs of one node among hosts that send DM_MSG packets with a field
\* left out, its notifier's forwarding print free to raise
SpecA == Init /\ [][NextA]_vars

(* ------------- one node with all its tasks, two messages --------------- *)

\* cap on the number of resends handed to send_packet in a run of SpecN
MaxResendsN == 2

TotalResend ==
    SumOver(Nodes \X AllIds, [x \in Nodes \X AllIds |-> hist[x[1]][x[2]].resend])

\* originators a DM_MSG of a host outside Nodes may name: the host itself, or
\* the running node (a forged packet, or one of the node's own messages that
\* comes back after its table was lost)
OriginsN == {ForeignNode, NodeA}

\* a host outside Nodes broadcasts a DM_MSG that names `origin`
ForeignSendFrom(origin, dest, hops, ttl) ==
    /\ LET msg == [BuildOutgoingMessage(nextId, origin, origin, "SOS", "help",
                                        dest, ttl) EXCEPT !.hops = hops]
       IN  /\ air' = air \cup {msg}
           /\ last' = [op |-> "foreign", node |-> ForeignNode, pkt |-> msg,
                       inserted |-> FALSE, out |-> <<>>, batch |-> <<>>, online |-> FALSE,
                       pre |-> <<>>, failed |-> <<>>]
    /\ nextId' = nextId + 1
    /\ before' = Snapshot
    /\ UNCHANGED <<suspended, store, seen_online, notifier_up, receiver_up, hist>>

\* /quit (or an interrupt) in main_loop: every task of the node is cancelled
Quit(n) ==
    /\ receiver_up[n]
    /\ receiver_up' = [receiver_up EXCEPT ![n] = FALSE]
    /\ notifier_up' = [notifier_up EXCEPT ![n] = FALSE]
    /\ last' = [op |-> "quit", node |-> n, pkt |-> NoPkt, inserted |-> FALSE,
                out |-> <<>>, batch |-> <<>>, online |-> FALSE,
                pre |-> <<>>, failed |-> <<>>]
    /\ before' = Snapshot
    /\ UNCHANGED <<suspended, store, air, seen_online, nextId, hist>>

DoSendN ==
    /\ receiver_up[NodeA]
    /\ nextId <= MaxMsgsA
    /\ \E st \in Subtypes : Send(NodeA, st, "")

DoForeignSendN ==
    /\ nextId <= MaxMsgsA
    /\ \E o \in OriginsN, ht \in ForeignHopsTtl : ForeignSendFrom(o, "", ht[1], ht[2])

DoReceiveN == \E p \in air \cup BadDatagrams : Receive(NodeA, p)

DoSosCycleN ==
    /\ receiver_up[NodeA]
    /\ TotalResend + Len(ResendRows(NodeA, store[NodeA])) <= MaxResendsN
    /\ SosCycle(NodeA)

DoProbeN == \E online \in BOOLEAN : Probe(NodeA, online)

DoQuitN == Quit(NodeA)

NextN == DoSendN \/ DoForeignSendN \/ DoReceiveN \/ DoSosCycleN \/ DoProbeN \/ DoQuitN

\* the runs of one node, all its tasks running until /quit, among hosts that
\* send it valid and invalid datagrams
SpecN == Init /\ [][NextN]_vars

(* ------------------- the network that never goes offline -------------- *)

\* every probe of every node finds the network reachable
DoProbeOnline == \E n \in Nodes : Probe(n, TRUE)

NextOnline == DoSend \/ DoForeignSend \/ DoReceive \/ DoSosCycle \/ DoProbeOnline

\* the runs in which no probe ever observes offline
SpecOnline == Init /\ [][NextOnline]_vars

(* ------------------- the older variant, src/dmasst.py ------------------ *)

\* the node that runs the older program, next to NodeA that runs the mesh one
NodeOld == "B"

\* the row dict the older on_incoming_message hands to insert_message, as
\* the older insert_message stores it (forwarded = 0)
OldRow(msg) ==
    [id           |-> msg["id"],
     origin_id    |-> Get(msg, "origin_id", ""),
     origin_label |-> Get(msg, "origin_label", ""),
     type         |-> Get(msg, "subtype", "SOS"),
     payload      |-> Get(msg, "payload", ""),
     hops         |-> Get(msg, "hops", 0),
     ttl          |-> Get(msg, "ttl", MESSAGE_TTL),
     forwarded    |-> 0]

OldIdle(s) == [store |-> s, inserted |-> FALSE, await |-> FALSE]

\* variant of OldHandler: the handler goes on to the relay without the insert
OldHandlerNoInsert(s, msg) ==
    IF Get(msg, "type", "") # "DM_MSG" THEN OldIdle(s)
    ELSE IF "id" \notin DOMAIN msg THEN OldIdle(s)
    ELSE [store    |-> s,
          inserted |-> TRUE,
          await    |-> MayRelay(Get(msg, "hops", 0), Get(msg, "ttl", MESSAGE_TTL))]

\* the older on_incoming_message up to its return or to its await: the
\* table afterwards, the result of the insert, and whether the coroutine
\* is left suspended in asyncio.sleep(RELAY_DELAY)
OldHandler(s, msg) ==
    IF Get(msg, "type", "") # "DM_MSG" THEN OldIdle(s)
    ELSE IF "id" \notin DOMAIN msg THEN OldIdle(s)
    ELSE IF HasId(s, msg["id"]) THEN OldIdle(s)
    ELSE [store    |-> Append(s, OldRow(msg)),
          inserted |-> TRUE,
          await    |-> MayRelay(Get(msg, "hops", 0), Get(msg, "ttl", MESSAGE_TTL))]

\* the receiver reads datagram p and awaits the handler; while the handler
\* is suspended the receiver reads no other datagram
OldReceive(n, p) ==
    LET r == OldHandler(store[n], p)
    IN  /\ receiver_up[n]
        /\ suspended[n] = NoPkt
        /\ store' = [store EXCEPT ![n] = r.store]
        /\ suspended' = [suspended EXCEPT ![n] = IF r.await THEN p ELSE NoPkt]
        /\ hist' = IF PktId(p) \in AllIds
                   THEN [hist EXCEPT ![n][PktId(p)].ins = @ + (IF r.inserted THEN 1 ELSE 0)]
                   ELSE hist
        /\ last' = [op |-> "recv", node |-> n, pkt |-> p, inserted |-> r.inserted,
                    out |-> <<>>, batch |-> <<>>, online |-> FALSE,
                    pre |-> GetMessage(store[n], PktId(p)), failed |-> <<>>]
        /\ before' = Snapshot
        /\ UNCHANGED <<air, seen_online, notifier_up, receiver_up, nextId>>

\* the handler resumes after the relay delay: outgoing = dict(msg) with
\* hops + 1, from the msg and hops the coroutine kept
OldRelay(n) ==
    LET msg  == suspended[n]
        outs == <<RelayPacket(msg, Get(msg, "hops", 0))>>
    IN  /\ receiver_up[n]
        /\ suspended[n] # NoPkt
        /\ \E ok \in BOOLEAN :
              /\ air' = SendPackets(air, outs, <<ok>>)
              /\ last' = [op |-> "relay", node |-> n, pkt |-> msg, inserted |-> FALSE,
                          out |-> SendLog(outs, <<ok>>), batch |-> <<>>,
                          online |-> FALSE, pre |-> GetMessage(store[n], msg["id"]),
                          failed |-> <<>>]
        /\ suspended' = [suspended EXCEPT ![n] = NoPkt]
        /\ hist' = [hist EXCEPT ![n][msg["id"]].relay = @ + 1]
        /\ before' = Snapshot
        /\ UNCHANGED <<store, seen_online, notifier_up, receiver_up, nextId>>

\* the older build_outgoing_message: no dest_id
OldBuildOutgoingMessage(mid, origin_id, origin_label, subtype, payload, ttl) ==
    [type |-> "DM_MSG", id |-> mid, origin_id |-> origin_id,
     origin_label |-> origin_label, subtype |-> subtype, payload |-> payload,
     hops |-> 0, ttl |-> ttl]

\* the older /send: insert locally, then broadcast
OldSend(n, subtype) ==
    /\ receiver_up[n]
    /\ LET msg == OldBuildOutgoingMessage(nextId, n, n, subtype, "help", MESSAGE_TTL)
           ok_ins == ~HasId(store[n], msg["id"])
       IN  \E ok \in BOOLEAN :
             /\ store' = [store EXCEPT ![n] = IF ok_ins THEN Append(@, OldRow(msg)) ELSE @]
             /\ air' = SendPackets(air, <<msg>>, <<ok>>)
             /\ hist' = [hist EXCEPT ![n][nextId].ins = @ + (IF ok_ins THEN 1 ELSE 0)]
             /\ last' = [op |-> "send", node |-> n, pkt |-> msg, inserted |-> ok_ins,
                         out |-> SendLog(<<msg>>, <<ok>>), batch |-> <<>>,
                         online |-> FALSE, pre |-> <<>>, failed |-> <<>>]
    /\ nextId' = nextId + 1
    /\ before' = Snapshot
    /\ UNCHANGED <<suspended, seen_online, notifier_up, receiver_up>>

\* the older get_pending_messages: WHERE forwarded=0
OldPendingMessages(s) == SelectSeq(s, LAMBDA r : r.forwarded = 0)

\* one pass of the while-loop body of the older SignalNotifier.run
OldProbe(n, online) ==
    LET pending == IF Edge(online, seen_online[n])
                   THEN OldPendingMessages(store[n]) ELSE <<>>
        ids     == [i \in DOMAIN pending |-> pending[i].id]
    IN  /\ notifier_up[n]
        /\ TotalUpstream + Len(ids) <= MaxUpstream
        /\ store' = [store EXCEPT ![n] = MarkAllForwarded(@, ids)]
        /\ seen_online' = [seen_online EXCEPT ![n] = online]
        /\ hist' = [hist EXCEPT ![n] =
                      [m \in AllIds |->
                         IF \E i \in DOMAIN ids : ids[i] = m
                         THEN [@[m] EXCEPT !.upstream = @ + 1] ELSE @[m]]]
        /\ last' = [op |-> "probe", node |-> n, pkt |-> NoPkt, inserted |-> FALSE,
                    out |-> <<>>, batch |-> ids, online |-> online,
                    pre |-> <<>>, failed |-> <<>>]
        /\ before' = Snapshot
        /\ UNCHANGED <<suspended, air, notifier_up, receiver_up, nextId>>

\* the older /quit: every task is cancelled, a handler suspended in the relay
\* delay included
OldQuit(n) ==
    /\ receiver_up[n]
    /\ receiver_up' = [receiver_up EXCEPT ![n] = FALSE]
    /\ notifier_up' = [notifier_up EXCEPT ![n] = FALSE]
    /\ suspended' = [suspended EXCEPT ![n] = NoPkt]
    /\ last' = [op |-> "quit", node |-> n, pkt |-> NoPkt, inserted |-> FALSE,
                out |-> <<>>, batch |-> <<>>, online |-> FALSE,
                pre |-> <<>>, failed |-> <<>>]
    /\ before' = Snapshot
    /\ UNCHANGED <<store, air, seen_online, nextId, hist>>

DoSendMesh ==
    /\ nextId <= MaxMsgs
    /\ \E st \in Subtypes, d \in Dests : Send(NodeA, st, d)

DoSendOld ==
    /\ nextId <= MaxMsgs
    /\ \E st \in Subtypes : OldSend(NodeOld, st)

DoReceiveMesh == \E p \in air \cup StrayPackets : Receive(NodeA, p)

DoReceiveOld == \E p \in air \cup StrayPackets : OldReceive(NodeOld, p)

DoRelayOld == OldRelay(NodeOld)

DoSosCycleMesh == SosCycle(NodeA)

DoProbeMesh == \E online \in BOOLEAN : Probe(NodeA, online)

DoProbeOld == \E online \in BOOLEAN : OldProbe(NodeOld, online)

DoQuitOld == OldQuit(NodeOld)

NextMixed ==
    \/ DoSendMesh \/ DoSendOld \/ DoForeignSend
    \/ DoReceiveMesh \/ DoReceiveOld \/ DoRelayOld
    \/ DoSosCycleMesh \/ DoProbeMesh \/ DoProbeOld \/ DoQuitOld

\* the runs of a network in which one node runs the mesh program and one
\* the older program
SpecMixed == Init /\ [][NextMixed]_vars

(* ------------------------- the fair scheduler -------------------------- *)

\* sos_resender_task is a `while True` loop around one cycle and a sleep: as
\* long as the node runs, a cycle that has something to resend is taken
SpecFair == Spec /\ \A n \in Nodes : WF_vars(SosCycle(n))

(* ------------------------- helpers of the properties ------------------- *)

\* the rows of node n that carry id m
RowsOf(n, m) == {i \in DOMAIN store[n] : store[n][i].id = m}

\* the last step was node n's receiver handling a DM_MSG
HandledDmMsg(n) == last.op = "recv" /\ last.node = n /\ last.pkt.type = "DM_MSG"

\* log `out` holds a DM_ACK of node n for id m
HasAck(out, n, m) ==
    \E i \in DOMAIN out : /\ out[i].pkt.type = "DM_ACK"
                          /\ out[i].pkt.orig_msg_id = m
                          /\ out[i].pkt.from_node = n

\* log `out` holds a DM_MSG for id m
HasMsg(out, m) ==
    \E i \in DOMAIN out : out[i].pkt.type = "DM_MSG" /\ out[i].pkt.id = m

\* log `out` holds the relay of packet p: p with hops + 1
HasRelayOf(out, p) ==
    \E i \in DOMAIN out : /\ out[i].pkt.type = "DM_MSG"
                          /\ out[i].pkt.id = p.id
                          /\ out[i].pkt.hops = p.hops + 1
                          /\ out[i].pkt.ttl = p.ttl

\* packet p names a destination other than node n
Misaddressed(n, p) == "dest_id" \in DOMAIN p /\ p.dest_id # "" /\ p.dest_id # n

(* -------------------------------- C1 ----------------------------------- *)

\* C1: at every node insert_message returns True at most once per message id,
\* and exactly once for every id the node holds; the table never holds two
\* rows of one id, however often the packet is delivered, sent or resent.
C1_InsertTrueOncePerId ==
    \A n \in Nodes : \A m \in AllIds :
        /\ hist[n][m].ins <= 1
        /\ (hist[n][m].ins = 1) <=> HasId(store[n], m)
        /\ Cardinality(RowsOf(n, m)) <= 1

\* a node that holds the id was handed the packet again and the insert failed
C1_Witness ==
    \E n \in Nodes :
        /\ HandledDmMsg(n)
        /\ "id" \in DOMAIN last.pkt
        /\ ~Misaddressed(n, last.pkt)
        /\ ~last.inserted
        /\ hist[n][last.pkt.id].ins = 1

(* -------------------------------- C2 ----------------------------------- *)

\* C2: every node hands at most one relay packet per message id to the
\* transport, whatever copies of the id it receives.
C2_RelayAtMostOnce == \A n \in Nodes : \A m \in AllIds : hist[n][m].relay <= 1

\* a node that has relayed the id was handed another copy of it
C2_Witness ==
    \E n \in Nodes :
        /\ HandledDmMsg(n)
        /\ "id" \in DOMAIN last.pkt
        /\ ~Misaddressed(n, last.pkt)
        /\ ~last.inserted
        /\ hist[n][last.pkt.id].relay = 1

(* -------------------------------- C3 ----------------------------------- *)

\* C3 (as claimed): when a DM_MSG with an id the node has not stored arrives
\* with hops >= ttl, the node stores it, emits a DM_ACK for it and emits no
\* relay packet for it.
C3_ExhaustedStoredAckedNotRelayed ==
    (  \A n \in Nodes :
         (/\ last.op = "recv" /\ last.node = n /\ last.pkt.type = "DM_MSG"
          /\ "id" \in DOMAIN last.pkt
          /\ ~HasId(before.store[n], last.pkt.id)
          /\ last.pkt.hops >= last.pkt.ttl)
         => (/\ HasId(store[n], last.pkt.id)
             /\ HasAck(last.out, n, last.pkt.id)
             /\ ~HasMsg(last.out, last.pkt.id)))

(* -------------------------------- C4 ----------------------------------- *)

\* C4 (as claimed): a node handed a DM_MSG whose dest_id is non-empty and not
\* its own id, which it has not relayed before, still relays it with hops + 1
\* when hops < ttl, and does not mark it acknowledged.
C4_NonAddresseeStillRelays ==
    (  \A n \in Nodes :
         (/\ last.op = "recv" /\ last.node = n /\ last.pkt.type = "DM_MSG"
          /\ "id" \in DOMAIN last.pkt
          /\ Misaddressed(n, last.pkt)
          /\ before.hist[n][last.pkt.id].relay = 0
          /\ last.pkt.hops < last.pkt.ttl)
         => (/\ HasRelayOf(last.out, last.pkt)
             /\ \A i \in DOMAIN store[n] :
                   store[n][i].id = last.pkt.id => store[n][i].acknowledged = 0))

(* -------------------------------- C5 ----------------------------------- *)

\* C5: a node handed a DM_MSG whose dest_id is non-empty and not its own id
\* ignores it: the store, the broadcast domain and the emission counts are
\* unchanged and nothing is handed to the transport. A node handed a DM_MSG
\* that names it or names nobody, with an id it has not stored, stores it,
\* emits a DM_ACK and emits a relay exactly when hops < ttl.
C5_MisaddressedIgnored ==
    (  \A n \in Nodes :
         (last.op = "recv" /\ last.node = n /\ last.pkt.type = "DM_MSG")
         => IF Misaddressed(n, last.pkt)
            THEN /\ store = before.store
                 /\ air = before.air
                 /\ hist = before.hist
                 /\ last.out = <<>>
                 /\ ~last.inserted
            ELSE ("id" \in DOMAIN last.pkt /\ ~HasId(before.store[n], last.pkt.id))
                 => (/\ HasId(store[n], last.pkt.id)
                     /\ last.inserted
                     /\ HasAck(last.out, n, last.pkt.id)
                     /\ (last.pkt.hops < last.pkt.ttl)
                          <=> HasRelayOf(last.out, last.pkt)))

\* a node that does not hold the id was handed a relayable DM_MSG addressed
\* to another node, and still does not hold it
C5_Witness ==
    \E n \in Nodes :
        /\ HandledDmMsg(n)
        /\ "id" \in DOMAIN last.pkt
        /\ Misaddressed(n, last.pkt)
        /\ last.pkt.hops < last.pkt.ttl
        /\ ~HasId(store[n], last.pkt.id)
        /\ \E m \in Nodes : HasId(store[m], last.pkt.id)

(* -------------------------------- C6 ----------------------------------- *)

\* C6 (as claimed): a record is acknowledged only at its originating node.
C6_AcknowledgedOnlyAtOrigin ==
    \A n \in Nodes : \A i \in DOMAIN store[n] :
        store[n][i].acknowledged = 1 => store[n][i].origin_id = n

(* -------------------------------- C7 ----------------------------------- *)

\* C7 (as claimed): once a record has forwarded = 1 at a node, no later step
\* invokes the upstream channel for it at that node, whatever its kind.
C7_ForwardedNeverReinvoked ==
    (  \A n \in Nodes : \A i \in DOMAIN before.store[n] :
         before.store[n][i].forwarded = 1
         => hist[n][before.store[n][i].id].upstream
              = before.hist[n][before.store[n][i].id].upstream)

(* -------------------------------- C8 ----------------------------------- *)

\* C8: once a locally originated SOS record has resend_count =
\* MAX_SOS_RESENDS, it keeps that count and its resend tally in every later
\* step, and a scheduler cycle of its node emits no packet for it and leaves
\* its record as it is, acknowledged or not.
C8_CappedNeverResent ==
    (  \A n \in Nodes : \A i \in DOMAIN before.store[n] :
         (/\ before.store[n][i].origin_id = n
          /\ before.store[n][i].type = "SOS"
          /\ before.store[n][i].resend_count = MAX_SOS_RESENDS)
         => (/\ i \in DOMAIN store[n]
             /\ store[n][i].id = before.store[n][i].id
             /\ store[n][i].resend_count = MAX_SOS_RESENDS
             /\ hist[n][before.store[n][i].id].resend = before.hist[n][before.store[n][i].id].resend
             /\ (last.op = "sos" /\ last.node = n)
                  => (/\ ~HasMsg(last.out, before.store[n][i].id)
                      /\ store[n][i] = before.store[n][i])))

\* a scheduler cycle ran at a node whose own unacknowledged SOS is at the cap
C8_Witness ==
    \E n \in Nodes : \E i \in DOMAIN store[n] :
        /\ last.op = "sos" /\ last.node = n /\ last.out = <<>>
        /\ store[n][i].origin_id = n
        /\ store[n][i].type = "SOS"
        /\ store[n][i].acknowledged = 0
        /\ store[n][i].resend_count = MAX_SOS_RESENDS
        /\ hist[n][store[n][i].id].resend = MAX_SOS_RESENDS

(* -------------------------------- C9 ----------------------------------- *)

\* the first admission at node b of an SOS with ttl = MESSAGE_TTL that node a
\* created, at hops = 0: b holds it, emitted a DM_ACK and its relay at hops 1
C9_Admission ==
    \A a \in Nodes : \A b \in Nodes \ {a} :
        (/\ HandledDmMsg(b)
         /\ last.inserted
         /\ last.pkt.origin_id = a
         /\ last.pkt.subtype = "SOS"
         /\ last.pkt.hops = 0
         /\ last.pkt.ttl = MESSAGE_TTL)
        => (/\ \E i \in DOMAIN store[b] :
                  /\ store[b][i].id = last.pkt.id
                  /\ store[b][i].hops = 0
                  /\ store[b][i].ttl = MESSAGE_TTL
            /\ Len(last.out) = 2
            /\ last.out[1].pkt = [type |-> "DM_ACK", orig_msg_id |-> last.pkt.id,
                                  from_node |-> b]
            /\ last.out[2].pkt = [last.pkt EXCEPT !.hops = 1])

\* the origin handling a DM_ACK for a record it holds leaves it acknowledged
C9_AckMarks ==
    \A a \in Nodes :
        (/\ last.op = "recv" /\ last.node = a /\ last.pkt.type = "DM_ACK")
        => \A i \in RowsOf(a, last.pkt.orig_msg_id) : store[a][i].acknowledged = 1

\* once the record is acknowledged at its origin, no step emits a resend of it
\* there, and it stays acknowledged
C9_NoResendAfterAck ==
    \A a \in Nodes : \A i \in DOMAIN before.store[a] :
        (before.store[a][i].origin_id = a /\ before.store[a][i].acknowledged = 1)
        => (/\ hist[a][before.store[a][i].id].resend = before.hist[a][before.store[a][i].id].resend
            /\ store[a][i].acknowledged = 1
            /\ (last.op = "sos" /\ last.node = a) => ~HasMsg(last.out, before.store[a][i].id))

\* C9: node B admits A's SOS (ttl 6) at hops 0: it stores it, emits a DM_ACK
\* and relays it with hops 1; when A has handled that ack the record is
\* acknowledged at A and A's scheduler never emits a resend of the id again.
C9_AckStopsResend == (C9_Admission /\ C9_AckMarks) /\ C9_NoResendAfterAck

\* B holds A's SOS and relayed it, A handled B's ack, and a scheduler cycle of
\* A then ran and emitted nothing
C9_Witness ==
    \E a \in Nodes : \E b \in Nodes \ {a} : \E m \in AllIds :
        /\ \E i \in DOMAIN store[a] :
              /\ store[a][i].id = m /\ store[a][i].origin_id = a
              /\ store[a][i].type = "SOS" /\ store[a][i].acknowledged = 1
              /\ store[a][i].resend_count < MAX_SOS_RESENDS
        /\ HasId(store[b], m)
        /\ hist[b][m].ack = 1 /\ hist[b][m].relay = 1
        /\ [type |-> "DM_ACK", orig_msg_id |-> m, from_node |-> b] \in air
        /\ last.op = "sos" /\ last.node = a /\ last.out = <<>>

(* -------------------------------- C10 ---------------------------------- *)

\* C10: the scheduler of node n emits resend packets only for records whose
\* origin_id is n; a record of another origin is never resent by n and keeps
\* resend_count = 0 at n.
C10_ResendOnlyOwn ==
    /\ \A n \in Nodes : \A i \in DOMAIN store[n] :
          store[n][i].origin_id # n
          => (store[n][i].resend_count = 0 /\ hist[n][store[n][i].id].resend = 0)
    /\ last.op = "sos"
       => \A k \in DOMAIN last.out : last.out[k].pkt.origin_id = last.node

\* a scheduler cycle ran at a node that holds an unacknowledged SOS of
\* another origin
C10_Witness ==
    \E n \in Nodes : \E i \in DOMAIN store[n] :
        /\ last.op = "sos" /\ last.node = n
        /\ store[n][i].origin_id # n
        /\ store[n][i].type = "SOS"
        /\ store[n][i].acknowledged = 0
        /\ store[n][i].ttl > 0

(* -------------------------------- C11 ---------------------------------- *)

\* the step is a probe of node n's notifier that observed `online`
ProbeStep(n, online) ==
    last.op = "probe" /\ last.node = n /\ last.online = online

\* C11: a probe that observes online when the previous probe of the same
\* node also observed online (so _seen_online is still set) invokes no
\* upstream forward and changes no record of any node: consecutive online
\* results give one batch, not two.
C11_OnlineTwiceOneBatch ==
    (  \A n \in Nodes :
         (before.seen_online[n] /\ ProbeStep(n, TRUE))
         => (last.batch = <<>> /\ store = before.store /\ hist = before.hist))

\* an online probe ran without a batch although the node holds a record that
\* was never forwarded: the record was stored after the batch of the edge
C11_Witness ==
    \E n \in Nodes : \E i \in DOMAIN store[n] :
        /\ last.op = "probe" /\ last.node = n /\ last.online
        /\ last.batch = <<>>
        /\ seen_online[n]
        /\ store[n][i].forwarded = 0
        /\ hist[n][store[n][i].id].upstream = 0

(* -------------------------------- C12 ---------------------------------- *)

\* row r is in the forwarding candidate set
PendingRow(r) == r.forwarded = 0 \/ (r.type = "SOS" /\ r.acknowledged = 0)

\* C12: when _seen_online is clear (the previous probe observed offline) an
\* online probe runs a batch over exactly the records pending at that
\* moment: each of them is handed upstream once and is forwarded afterwards,
\* and no other record is in the batch.
C12_EdgeForwardsAllPending ==
    (  \A n \in Nodes :
         (~before.seen_online[n] /\ ProbeStep(n, TRUE))
         => \A i \in DOMAIN before.store[n] :
              LET r == before.store[n][i] IN
              IF PendingRow(r)
              THEN /\ \E k \in DOMAIN last.batch : last.batch[k] = r.id
                   /\ store[n][i] = [r EXCEPT !.forwarded = 1]
                   /\ hist[n][r.id].upstream = before.hist[n][r.id].upstream + 1
              ELSE /\ \A k \in DOMAIN last.batch : last.batch[k] # r.id
                   /\ store[n][i] = r
                   /\ hist[n][r.id].upstream = before.hist[n][r.id].upstream)

\* the second batch of a node over one record: between the two batches the
\* node's probe observed offline, and the online probe after it handed the
\* still-pending record upstream again
C12_Witness ==
    \E n \in Nodes : \E i \in DOMAIN store[n] :
        /\ last.op = "probe" /\ last.node = n /\ last.online
        /\ last.batch = <<store[n][i].id>>
        /\ store[n][i].forwarded = 1
        /\ hist[n][store[n][i].id].upstream = 2

(* -------------------------------- C13 ---------------------------------- *)

\* the step is node n's receiver handling a packet of the given type
RecvStep(n, type) ==
    last.op = "recv" /\ last.node = n /\ last.pkt.type = type

\* C13: when a DM_MSG arrives whose id the node already holds, the handler
\* stops at the failed insert: every table is unchanged (the stored record
\* keeps all its fields, hops included), no DM_ACK and no relay is handed to
\* send_packet, and nothing reaches the broadcast domain.
C13_DuplicateStopsAtGate ==
    (  \A n \in Nodes :
         (/\ RecvStep(n, "DM_MSG")
          /\ "id" \in DOMAIN last.pkt
          /\ HasId(before.store[n], last.pkt.id))
         => /\ store = before.store
            /\ air = before.air
            /\ hist = before.hist
            /\ ~last.inserted
            /\ last.out = <<>>)

\* a copy with another hop count (a relay of the packet) reached a node that
\* holds the id, and was addressed to it
C13_Witness ==
    \E n \in Nodes : \E i \in DOMAIN store[n] :
        /\ HandledDmMsg(n)
        /\ "id" \in DOMAIN last.pkt
        /\ ~Misaddressed(n, last.pkt)
        /\ store[n][i].id = last.pkt.id
        /\ store[n][i].hops # last.pkt.hops
        /\ ~last.inserted
        /\ last.pre = <<store[n][i]>>

(* -------------------------------- C14 ---------------------------------- *)

\* C14: a DM_ACK for an id the node holds leaves the record with
\* acknowledged = 1 and emits nothing; when the record was acknowledged
\* already, the step leaves every table unchanged.
C14_AckIdempotent ==
    (  \A n \in Nodes :
         (/\ RecvStep(n, "DM_ACK")
          /\ "orig_msg_id" \in DOMAIN last.pkt
          /\ HasId(before.store[n], last.pkt.orig_msg_id))
         => /\ \A i \in DOMAIN store[n] :
                 store[n][i].id = last.pkt.orig_msg_id
                 => store[n][i].acknowledged = 1
            /\ (\A i \in DOMAIN before.store[n] :
                  before.store[n][i].id = last.pkt.orig_msg_id
                  => before.store[n][i].acknowledged = 1)
               => store = before.store
            /\ last.out = <<>>)

\* a further DM_ACK was handled for a record that was acknowledged before
C14_Witness ==
    \E n \in Nodes : \E i \in DOMAIN store[n] :
        /\ last.op = "recv" /\ last.node = n /\ last.pkt.type = "DM_ACK"
        /\ store[n][i].id = last.pkt.orig_msg_id
        /\ last.pre # <<>>
        /\ last.pre[1].acknowledged = 1
        /\ store[n][i].acknowledged = 1

(* -------------------------------- C16 ---------------------------------- *)

\* C16: in every step, of whichever task, every stored record stays in its
\* place in the table, and a flag acknowledged or forwarded that is 1 before
\* the step is 1 after it.
C16_FlagsNeverCleared ==
    (  \A n \in Nodes : \A i \in DOMAIN before.store[n] :
         /\ i \in DOMAIN store[n]
         /\ store[n][i].id = before.store[n][i].id
         /\ before.store[n][i].acknowledged = 1 => store[n][i].acknowledged = 1
         /\ before.store[n][i].forwarded = 1 => store[n][i].forwarded = 1)

\* a record with both flags set went through a second batch of its node's
\* notifier and after that a further DM_ACK
C16_Witness ==
    \E n \in Nodes : \E i \in DOMAIN store[n] :
        /\ store[n][i].acknowledged = 1
        /\ store[n][i].forwarded = 1
        /\ hist[n][store[n][i].id].upstream = 2
        /\ last.op = "recv" /\ last.node = n /\ last.pkt.type = "DM_ACK"
        /\ last.pkt.orig_msg_id = store[n][i].id
        /\ last.pre # <<>>
        /\ last.pre[1].acknowledged = 1

(* -------------------------------- C17 ---------------------------------- *)

\* every stored record has 0 <= resend_count <= MAX_SOS_RESENDS
C17_Range ==
    \A n \in Nodes : \A i \in DOMAIN store[n] :
        store[n][i].resend_count \in 0..MAX_SOS_RESENDS

\* no step lowers the resend_count of a stored record
C17_NoDecrease ==
    \A n \in Nodes : \A i \in DOMAIN before.store[n] :
        i \in DOMAIN store[n] /\ store[n][i].resend_count >= before.store[n][i].resend_count

\* C17: in every reachable state every stored record has
\* 0 <= resend_count <= MAX_SOS_RESENDS, and no step lowers a resend_count.
C17_ResendCountBounded == C17_Range /\ C17_NoDecrease

\* a scheduler cycle ran over a record that had reached the cap, at a node
\* whose peer holds the same message with resend_count still 0
C17_Witness ==
    \E a \in Nodes, b \in Nodes : \E i \in DOMAIN store[a], j \in DOMAIN store[b] :
        /\ a # b
        /\ store[a][i].id = store[b][j].id
        /\ store[a][i].resend_count = MAX_SOS_RESENDS
        /\ hist[a][store[a][i].id].resend = MAX_SOS_RESENDS
        /\ store[b][j].resend_count = 0
        /\ last.op = "sos" /\ last.node = a /\ last.out = <<>>
        /\ store[a][i].acknowledged = 0

(* -------------------------------- C19 ---------------------------------- *)

\* row r with the three fields that the store's update statements write
\* set to 0
CreationFields(r) ==
    [r EXCEPT !.acknowledged = 0, !.resend_count = 0, !.forwarded = 0]

\* C19 as stated: after a record is created, no step changes any of its
\* fields other than acknowledged and resend_count; forwarded in particular
\* keeps its creation value.
C19_OnlyAckAndResendChange ==
    (  \A n \in Nodes : \A i \in DOMAIN before.store[n] :
         /\ i \in DOMAIN store[n]
         /\ [store[n][i] EXCEPT !.acknowledged = 0, !.resend_count = 0]
              = [before.store[n][i] EXCEPT !.acknowledged = 0, !.resend_count = 0])

\* C19 amended: after a record is created, the only fields any step changes
\* are acknowledged, resend_count and forwarded; id, origin_id, origin_label,
\* dest_id, type, payload, hops and ttl keep their creation values.
C19_OnlyFlagsAndCountChange ==
    (  \A n \in Nodes : \A i \in DOMAIN before.store[n] :
         /\ i \in DOMAIN store[n]
         /\ CreationFields(store[n][i]) = CreationFields(before.store[n][i]))

\* a record on which all three update statements have acted
C19_Witness ==
    \E n \in Nodes : \E i \in DOMAIN store[n] :
        /\ store[n][i].acknowledged = 1
        /\ store[n][i].forwarded = 1
        /\ store[n][i].resend_count > 0
        /\ last.op = "probe" /\ last.node = n
        /\ last.batch = <<store[n][i].id>>

(* -------------------------------- C20 ---------------------------------- *)

\* C20: no step of the receive handler, the SOS scheduler, the notifier or
\* the local send removes a record: every id a node's table holds before a
\* step is held after it, in the same row.
C20_StoreOnlyGrows ==
    (  \A n \in Nodes :
         /\ Len(store[n]) >= Len(before.store[n])
         /\ \A i \in DOMAIN before.store[n] :
              i \in DOMAIN store[n] /\ store[n][i].id = before.store[n][i].id)

\* a record that is forwarded, acknowledged and out of resends is still in
\* the table when the next scheduler cycle has run
C20_Witness ==
    \E n \in Nodes : \E i \in DOMAIN store[n] :
        /\ store[n][i].forwarded = 1
        /\ store[n][i].acknowledged = 1
        /\ store[n][i].resend_count = MAX_SOS_RESENDS
        /\ last.op = "sos" /\ last.node = n

(* -------------------------------- C15 ---------------------------------- *)

\* C15: when the forwarding call of one pending record fails during a batch,
\* that record's forwarded flag is left as it was, every other record
\* pending at that moment is handed upstream and marked forwarded in the
\* same batch, and the notifier keeps running, so that the record is a
\* candidate of the next batch.
C15_FailedForwardIsolated ==
    (  \A n \in Nodes :
         (last.op = "probe" /\ last.node = n /\ last.failed # <<>>)
         => /\ \A i \in DOMAIN before.store[n] :
                 LET r == before.store[n][i] IN
                 PendingRow(r)
                 => IF \E k \in DOMAIN last.failed : last.failed[k] = r.id
                    THEN store[n][i] = r
                    ELSE /\ store[n][i] = [r EXCEPT !.forwarded = 1]
                         /\ hist[n][r.id].upstream = before.hist[n][r.id].upstream + 1
            /\ notifier_up[n])

(* -------------------------------- C18 ---------------------------------- *)

\* wire fields a DM_MSG must carry
RequiredMsgFields == {"id", "origin_id", "subtype", "payload", "hops", "ttl"}

\* packet p lacks a wire field its type requires
LacksField(p) ==
    \/ p.type = "DM_MSG" /\ RequiredMsgFields \ DOMAIN p # {}
    \/ p.type = "DM_ACK" /\ "orig_msg_id" \notin DOMAIN p

\* C18: a received DM_MSG or DM_ACK that lacks a required wire field is
\* dropped: the step changes no table, hands no ack and no relay to
\* send_packet, and puts nothing on the broadcast domain.
C18_MalformedDropped ==
    (  \A n \in Nodes :
         (last.op = "recv" /\ last.node = n /\ LacksField(last.pkt))
         => /\ store = before.store
            /\ air = before.air
            /\ ~last.inserted
            /\ last.out = <<>>)

(* -------------------------------- C21 ---------------------------------- *)

\* C21: a DM_ACK whose orig_msg_id the receiving node does not hold is
\* dropped: the step changes no table (no record is created), hands nothing
\* to send_packet, puts nothing on the broadcast domain, and the receive
\* loop is still running after it.
C21_UnknownAckDropped ==
    (  \A n \in Nodes :
         (/\ RecvStep(n, "DM_ACK")
          /\ "orig_msg_id" \in DOMAIN last.pkt
          /\ ~HasId(before.store[n], last.pkt.orig_msg_id))
         => /\ store = before.store
            /\ air = before.air
            /\ hist = before.hist
            /\ ~last.inserted
            /\ last.out = <<>>
            /\ receiver_up[n])

\* the ack of a peer for a message reached a node that does not hold the
\* message, while the peer does
C21_Witness ==
    \E n \in Nodes, b \in Nodes :
        /\ last.op = "recv" /\ last.node = n /\ last.pkt.type = "DM_ACK"
        /\ last.pkt.from_node = b
        /\ b # n
        /\ HasId(store[b], last.pkt.orig_msg_id)
        /\ ~HasId(store[n], last.pkt.orig_msg_id)
        /\ last.pre = <<>>

(* -------------------------------- C22 ---------------------------------- *)

\* C22: a step in which a node handles a DM_ACK hands no packet to
\* send_packet and leaves the broadcast domain unchanged, whether or not the
\* ack marks a record: an ack is neither relayed nor answered.
C22_AckEmitsNothing ==
    (  \A n \in Nodes :
         RecvStep(n, "DM_ACK")
         => /\ last.out = <<>>
            /\ air = before.air
            /\ \A m \in AllIds : /\ hist[n][m].relay = before.hist[n][m].relay
                                 /\ hist[n][m].ack = before.hist[n][m].ack)

\* an ack that marked a record which was not acknowledged before
C22_Witness ==
    \E n \in Nodes : \E i \in DOMAIN store[n] :
        /\ last.op = "recv" /\ last.node = n /\ last.pkt.type = "DM_ACK"
        /\ store[n][i].id = last.pkt.orig_msg_id
        /\ last.pre # <<>>
        /\ last.pre[1].acknowledged = 0
        /\ store[n][i].acknowledged = 1
        /\ last.out = <<>>

(* -------------------------------- C25 ---------------------------------- *)

\* the DM_MSG entries of a log of send_packet calls
MsgEntries(out) == {k \in DOMAIN out : out[k].pkt.type = "DM_MSG"}

\* what the receive handler handed to send_packet as relay of last.pkt
C25_RelayStep ==
    \A n \in Nodes :
        HandledDmMsg(n)
        => /\ \A k \in MsgEntries(last.out) :
                /\ last.out[k].pkt.id = last.pkt.id
                /\ last.out[k].pkt.ttl = last.pkt.ttl
                /\ last.out[k].pkt.hops = last.pkt.hops + 1
                /\ last.out[k].pkt.hops <= last.out[k].pkt.ttl
           /\ (last.inserted /\ last.pkt.hops < last.pkt.ttl)
              => Cardinality(MsgEntries(last.out)) = 1

\* every DM_MSG on the broadcast domain
C25_Air ==
    \A p \in air : p.type = "DM_MSG" => (p.hops <= p.ttl /\ p.ttl = MESSAGE_TTL)

\* C25: the relay a node emits for a packet admitted with hops h < ttl t
\* carries the packet's id, ttl t and hops h + 1, and it is the only DM_MSG
\* the handler emits; every DM_MSG on the broadcast domain has hops <= ttl
\* and the ttl its originator chose.
C25_RelayFields == C25_RelayStep /\ C25_Air

\* a packet that was relayed before is admitted and relayed again, the
\* relay reaching hops = ttl on the broadcast domain
C25_Witness ==
    \E n \in Nodes : \E k \in DOMAIN last.out :
        /\ HandledDmMsg(n)
        /\ last.inserted
        /\ last.pkt.hops >= 1
        /\ last.out[k].pkt.type = "DM_MSG"
        /\ last.out[k].ok
        /\ last.out[k].pkt.hops = last.pkt.ttl
        /\ last.out[k].pkt \in air

(* -------------------------------- C30 ---------------------------------- *)

\* kinds a DM_MSG may name ("" stands for a packet without the subtype key)
Kinds == {"SOS", "ALERT", "TEXT", ""}

\* packet p with its subtype replaced by kind v
WithKind(p, v) ==
    IF v = "" THEN [f \in DOMAIN p \ {"subtype"} |-> p[f]]
    ELSE [f \in DOMAIN p \cup {"subtype"} |-> IF f = "subtype" THEN v ELSE p[f]]

\* a sequence of packets with the subtype key taken out
KindBlind(pkts) == [i \in DOMAIN pkts |-> WithKind(pkts[i], "")]

\* a table with the kind column blanked
KindBlindRows(s) == [i \in DOMAIN s |-> [s[i] EXCEPT !.type = ""]]

\* C30: in every reachable state, for every node and every DM_MSG that can
\* be delivered to it, replacing the packet's subtype by any other kind (or
\* leaving it out) gives the same admission result, the same ack, the same
\* relay up to the copied subtype, and the same table up to the kind column.
C30_RelayBlindToKind ==
    \A n \in Nodes : \A p \in air \cup StrayPackets :
        p.type = "DM_MSG"
        => \A v \in Kinds :
             LET r1 == OnIncomingMessage(n, store[n], p)
                 r2 == OnIncomingMessage(n, store[n], WithKind(p, v))
             IN  /\ r1.inserted = r2.inserted
                 /\ r1.acks = r2.acks
                 /\ KindBlind(r1.relays) = KindBlind(r2.relays)
                 /\ KindBlindRows(r1.store) = KindBlindRows(r2.store)

\* an ALERT on the broadcast domain that a node would admit, acknowledge
\* and relay, and so it would with the kind replaced by SOS or left out
C30_Witness ==
    \E n \in Nodes : \E p \in air :
        /\ p.type = "DM_MSG" /\ p.subtype = "ALERT"
        /\ OnIncomingMessage(n, store[n], p).inserted
        /\ OnIncomingMessage(n, store[n], p).acks # <<>>
        /\ OnIncomingMessage(n, store[n], p).relays # <<>>
        /\ OnIncomingMessage(n, store[n], WithKind(p, "SOS")).inserted
        /\ OnIncomingMessage(n, store[n], WithKind(p, "")).relays # <<>>

(* -------------------------------- C28 ---------------------------------- *)

\* the number of datagrams for id m that node n put on the broadcast domain
\* through its scheduler in the step: the resends whose sendto succeeded
Rebroadcasts(n, m) ==
    IF last.op = "sos" /\ last.node = n
    THEN Cardinality({k \in DOMAIN last.out :
                        last.out[k].pkt.id = m /\ last.out[k].ok})
    ELSE 0

\* C28: resend_count of a locally originated record equals the number of
\* times the node's scheduler has re-broadcast the message: it starts at 0
\* and in every step grows by the number of resends of the message that
\* reached the broadcast domain in that step.
C28_CountsActualRebroadcasts ==
    (  \A n \in Nodes : \A i \in DOMAIN before.store[n] :
         before.store[n][i].origin_id = n
         => store[n][i].resend_count
              = before.store[n][i].resend_count + Rebroadcasts(n, before.store[n][i].id))

(* -------------------------------- C23 ---------------------------------- *)

\* C23: a pass of the receive loop over a datagram that does not decode, or
\* over a packet whose handling raises, changes no table and emits nothing,
\* and after every pass the loop is still running; the loop stops running
\* only in the step that cancels the node's tasks.
C23_ReceiveLoopSurvives ==
    (  \A n \in Nodes :
         /\ (last.op = "recv" /\ last.node = n)
            => /\ receiver_up[n]
               /\ Outcome(n, last.pkt) # "handled"
                  => (store = before.store /\ air = before.air /\ last.out = <<>>)
         /\ (before.receiver_up[n] /\ ~receiver_up[n])
            => (last.op = "quit" /\ last.node = n))

\* the loop is running after a pass in which the handler raised on a packet
\* that carries the id of a stored record, while the node holds two records
C23_Witness ==
    \E n \in Nodes :
        /\ last.op = "recv" /\ last.node = n
        /\ HandlerRaises(n, last.pkt)
        /\ last.pre # <<>>
        /\ Len(store[n]) = 2
        /\ receiver_up[n]

(* -------------------------------- C24 ---------------------------------- *)

\* the scheduler of node n is to resend the record r
DueForResend(n, r) ==
    /\ r.type = "SOS" /\ r.acknowledged = 0 /\ r.ttl > 0
    /\ r.origin_id = n /\ r.resend_count < MAX_SOS_RESENDS

\* C24: whether or not sendto succeeds, the handler that admits a DM_MSG
\* keeps the record, hands its DM_ACK to send_packet and, when hops < ttl,
\* its relay after that; and a scheduler cycle hands over a resend for
\* every record that is due and counts it, whatever became of the sends
\* before it.
C24_FailedSendHaltsNothing ==
    (  \A n \in Nodes :
         /\ (RecvStep(n, "DM_MSG") /\ last.inserted)
            => /\ HasId(store[n], last.pkt.id)
               /\ Len(last.out) = IF last.pkt.hops < last.pkt.ttl THEN 2 ELSE 1
               /\ last.out[1].pkt = AckPacket(n, last.pkt.id)
               /\ last.pkt.hops < last.pkt.ttl
                  => last.out[2].pkt = RelayPacket(last.pkt, last.pkt.hops)
         /\ (last.op = "sos" /\ last.node = n)
            => \A i \in DOMAIN before.store[n] :
                 DueForResend(n, before.store[n][i])
                 => /\ \E k \in DOMAIN last.out :
                         last.out[k].pkt.id = before.store[n][i].id
                    /\ store[n][i].resend_count = before.store[n][i].resend_count + 1)

\* a scheduler cycle whose first send failed handed over the resend of the
\* next record, which succeeded
C24_Witness ==
    \E n \in Nodes :
        /\ last.op = "sos" /\ last.node = n
        /\ Len(last.out) = 2
        /\ ~last.out[1].ok
        /\ last.out[2].ok
        /\ last.out[2].pkt \in air
        /\ \A i \in DOMAIN store[n] : store[n][i].resend_count = 1

(* -------------------------------- C26 ---------------------------------- *)

\* C26: every packet a scheduler cycle hands to send_packet is a DM_MSG
\* built from a record of the node's table: it carries the record's id,
\* origin_id, dest_id and ttl, and hops = 0, whatever hops and resend_count
\* the record holds.
C26_ResendFields ==
    \A n \in Nodes :
        (last.op = "sos" /\ last.node = n)
        => \A k \in DOMAIN last.out :
             /\ last.out[k].pkt.type = "DM_MSG"
             /\ last.out[k].pkt.hops = 0
             /\ \E i \in DOMAIN store[n] :
                  /\ store[n][i].id = last.out[k].pkt.id
                  /\ store[n][i].origin_id = last.out[k].pkt.origin_id
                  /\ store[n][i].dest_id = last.out[k].pkt.dest_id
                  /\ store[n][i].ttl = last.out[k].pkt.ttl

\* the second resend of a record that was stored with hops > 0 (the node
\* first met its own message as a packet on the broadcast domain)
C26_Witness ==
    \E n \in Nodes : \E i \in DOMAIN store[n] : \E k \in DOMAIN last.out :
        /\ last.op = "sos" /\ last.node = n
        /\ last.out[k].pkt.id = store[n][i].id
        /\ last.out[k].pkt.hops = 0
        /\ store[n][i].hops > 0
        /\ store[n][i].resend_count = 2

(* -------------------------------- C27 ---------------------------------- *)

\* the entries of log `out` that carry id m
EntriesFor(out, m) == {k \in DOMAIN out : out[k].pkt.id = m}

\* C27: in a scheduler cycle of node n, each record of n that is an SOS,
\* not acknowledged, with ttl > 0, origin_id = n and resend_count below
\* MAX_SOS_RESENDS gets exactly one resend packet and resend_count + 1;
\* every other record of n gets no packet and is unchanged, no packet is
\* handed over for anything else, and the tables of the other nodes are
\* unchanged.
C27_ResendSetExact ==
    (  \A n \in Nodes :
         (last.op = "sos" /\ last.node = n)
         => /\ DOMAIN store[n] = DOMAIN before.store[n]
            /\ \A i \in DOMAIN before.store[n] :
                 LET r == before.store[n][i] IN
                 IF /\ r.type = "SOS" /\ r.acknowledged = 0 /\ r.ttl > 0
                    /\ r.origin_id = n /\ r.resend_count < MAX_SOS_RESENDS
                 THEN /\ Cardinality(EntriesFor(last.out, r.id)) = 1
                      /\ store[n][i] = [r EXCEPT !.resend_count = @ + 1]
                      /\ hist[n][r.id].resend = before.hist[n][r.id].resend + 1
                 ELSE /\ EntriesFor(last.out, r.id) = {}
                      /\ store[n][i] = r
                      /\ hist[n][r.id].resend = before.hist[n][r.id].resend
            /\ \A k \in DOMAIN last.out : HasId(before.store[n], last.out[k].pkt.id)
            /\ \A b \in Nodes \ {n} : store[b] = before.store[b])

\* a cycle over a table of two SOS records of the node's own origin, one of
\* them acknowledged: one resend, for the other
C27_Witness ==
    \E n \in Nodes : \E i \in DOMAIN store[n], j \in DOMAIN store[n] :
        /\ last.op = "sos" /\ last.node = n
        /\ Len(last.out) = 1
        /\ last.out[1].pkt.id = store[n][i].id
        /\ store[n][i].resend_count = 1
        /\ i # j
        /\ store[n][j].type = "SOS"
        /\ store[n][j].origin_id = n
        /\ store[n][j].acknowledged = 1
        /\ store[n][j].resend_count = 0

(* -------------------------------- C29 ---------------------------------- *)

\* C29: on an online probe taken while _seen_online is clear, every record
\* pending at that moment is in the batch exactly once and its upstream
\* tally grows by exactly 1, nothing else is in the batch, and in the state
\* after the step every record the table held before it has forwarded = 1.
C29_BatchForwardsEachOnce ==
    (  \A n \in Nodes :
         (~before.seen_online[n] /\ ProbeStep(n, TRUE))
         => /\ DOMAIN store[n] = DOMAIN before.store[n]
            /\ \A i \in DOMAIN before.store[n] :
                 /\ store[n][i].forwarded = 1
                 /\ Cardinality({k \in DOMAIN last.batch :
                                   last.batch[k] = before.store[n][i].id})
                      = IF PendingRow(before.store[n][i]) THEN 1 ELSE 0
                 /\ hist[n][before.store[n][i].id].upstream
                      = before.hist[n][before.store[n][i].id].upstream
                        + IF PendingRow(before.store[n][i]) THEN 1 ELSE 0
            /\ \A k \in DOMAIN last.batch : HasId(before.store[n], last.batch[k]))

\* a batch over two pending records, an SOS and an ALERT
C29_Witness ==
    \E n \in Nodes :
        /\ last.op = "probe" /\ last.node = n /\ last.online
        /\ Len(last.batch) = 2
        /\ Len(store[n]) = 2
        /\ store[n][1].type # store[n][2].type
        /\ \A i \in DOMAIN store[n] :
             store[n][i].forwarded = 1 /\ hist[n][store[n][i].id].upstream = 1

(* -------------------------------- C34 ---------------------------------- *)

\* packet p is a DM_MSG with an id that names node n as its origin
OwnPacket(n, p) ==
    /\ Get(p, "type", "") = "DM_MSG"
    /\ "id" \in DOMAIN p
    /\ Get(p, "origin_id", "") = n

\* C34: the origin never acknowledges and never relays its own message. The
\* record is in the origin's table from the moment the packet is first
\* broadcast, the origin's ack and relay counts for it stay 0, and every
\* copy handed to the origin's receiver (loop-back, a neighbour's relay, a
\* resend) fails the insert: nothing is handed to send_packet and no table
\* changes.
C34_OriginNeverAcksOrRelays ==
    /\ (\A n \in Nodes : \A p \in air :
            OwnPacket(n, p)
            => /\ HasId(store[n], p.id)
               /\ hist[n][p.id].ack = 0
               /\ hist[n][p.id].relay = 0)
    /\ (  \A n \in Nodes :
            (RecvStep(n, "DM_MSG") /\ OwnPacket(n, last.pkt))
            => /\ ~last.inserted
               /\ last.out = <<>>
               /\ store = before.store
               /\ air = before.air)

\* the origin, having resent its message, was handed a neighbour's relay of it
C34_Witness ==
    \E n \in Nodes : \E i \in DOMAIN store[n] :
        /\ HandledDmMsg(n)
        /\ OwnPacket(n, last.pkt)
        /\ last.pkt.hops >= 1
        /\ store[n][i].id = last.pkt.id
        /\ store[n][i].origin_id = n
        /\ store[n][i].resend_count >= 1
        /\ \E b \in Nodes \ {n} : hist[b][last.pkt.id].relay = 1

(* -------------------------------- C35 ---------------------------------- *)

\* the DM_ACK packets for id m that reached the broadcast domain
AcksInAir(m) ==
    {p \in air : Get(p, "type", "") = "DM_ACK" /\ Get(p, "orig_msg_id", 0) = m}

\* C35: the receive handler of a node hands at most one DM_ACK per message
\* id to send_packet, and only in the step that stores the id: a copy of an
\* id the node holds (a resend included) elicits no ack. So while no DM_ACK
\* for the id has reached the broadcast domain, the origin's record stays
\* unacknowledged, whatever resend_count has become.
C35_AckOncePerNode ==
    /\ (\A n \in Nodes : \A m \in AllIds : hist[n][m].ack <= 1)
    /\ (\A n \in Nodes : \A i \in DOMAIN store[n] :
            (store[n][i].origin_id = n /\ AcksInAir(store[n][i].id) = {})
            => store[n][i].acknowledged = 0)
    /\ (  \A n \in Nodes :
            (RecvStep(n, "DM_MSG") /\ "id" \in DOMAIN last.pkt)
            => /\ HasId(before.store[n], last.pkt.id)
                  => (~HasAck(last.out, n, last.pkt.id) /\ hist = before.hist)
               /\ HasAck(last.out, n, last.pkt.id)
                  => (~HasId(before.store[n], last.pkt.id) /\ before.hist[n][last.pkt.id].ack = 0))

\* the one ack of the neighbour was lost; the origin has spent all its
\* resends, its record is still unacknowledged, and the neighbour, handed
\* a resend, emitted nothing
C35_Witness ==
    \E a \in Nodes : \E i \in DOMAIN store[a] :
        LET m == store[a][i].id
        IN  /\ store[a][i].origin_id = a
            /\ store[a][i].type = "SOS"
            /\ store[a][i].acknowledged = 0
            /\ store[a][i].resend_count = MAX_SOS_RESENDS
            /\ AcksInAir(m) = {}
            /\ \A b \in Nodes \ {a} : HasId(store[b], m) /\ hist[b][m].ack = 1
            /\ \E b \in Nodes \ {a} :
                  /\ HandledDmMsg(b)
                  /\ "id" \in DOMAIN last.pkt
                  /\ last.pkt.id = m
                  /\ last.pkt.hops = 0
                  /\ last.out = <<>>

(* -------------------------------- C32 ---------------------------------- *)

\* the DM_MSG packets of id m in the broadcast domain
MsgsInAir(m) == {p \in air : Get(p, "type", "") = "DM_MSG" /\ Get(p, "id", 0) = m}

\* the hosts named as origin of id m, in a packet or in a record
Origins(m) ==
    {Get(p, "origin_id", "") : p \in MsgsInAir(m)}
    \cup UNION {{store[n][i].origin_id : i \in RowsOf(n, m)} : n \in Nodes}

\* the hosts of the network id m lives in: the nodes and its origin
Hosts(m) == Nodes \cup Origins(m)

\* the initial send of id m
InitialSends(m) == IF Origins(m) = {} THEN 0 ELSE 1

\* DM_MSG packets of id m handed to send_packet by the schedulers
Resends(m) == SumOver(Nodes, [n \in Nodes |-> hist[n][m].resend])

\* DM_MSG packets of id m handed to send_packet by the receive handlers
Relays(m) == SumOver(Nodes, [n \in Nodes |-> hist[n][m].relay])

\* C32: the flood of one message id is bounded. Of every id there is one
\* initial send, at most MAX_SOS_RESENDS resends, all of them by the origin,
\* and at most one relay by every host other than the origin; so the number
\* of DM_MSG packets emitted for the id is at most
\* 1 + MAX_SOS_RESENDS + N - 1 in a network of N hosts, and once that many
\* were emitted no node emits the id again.
C32_FloodBounded ==
    \A m \in AllIds :
        /\ Cardinality(Origins(m)) <= 1
        /\ Resends(m) <= MAX_SOS_RESENDS
        /\ \A n \in Nodes : hist[n][m].resend > 0 => n \in Origins(m)
        /\ \A n \in Nodes : hist[n][m].relay > 0 => n \notin Origins(m)
        /\ Relays(m) <= Cardinality(Hosts(m)) - 1
        /\ InitialSends(m) + Resends(m) + Relays(m)
              <= 1 + MAX_SOS_RESENDS + Cardinality(Hosts(m)) - 1

\* the bound is met: the origin has sent and resent MAX_SOS_RESENDS times,
\* every other node has relayed
C32_Witness ==
    \E m \in AllIds :
        /\ Origins(m) \subseteq Nodes
        /\ InitialSends(m) + Resends(m) + Relays(m)
              = 1 + MAX_SOS_RESENDS + Cardinality(Nodes) - 1

(* -------------------------------- C36 ---------------------------------- *)

\* row i of node n is forwarded after the step and was not before it
BecomesForwarded(n, i) ==
    /\ store[n][i].forwarded = 1
    /\ (i \in DOMAIN before.store[n] => before.store[n][i].forwarded = 0)

\* C36: a record becomes forwarded only in a step of its node's forwarder
\* whose probe observes online while _seen_online is clear, and only if it
\* was stored before that step. So while _seen_online stays set (every probe
\* since the last batch observed online) no record of the node becomes
\* forwarded, a record admitted in the meantime included.
C36_ForwardedOnlyAtEdge ==
    (  \A n \in Nodes :
         /\ \A i \in DOMAIN store[n] :
               BecomesForwarded(n, i)
               => /\ ProbeStep(n, TRUE)
                  /\ ~before.seen_online[n]
                  /\ i \in DOMAIN before.store[n]
                  /\ \E k \in DOMAIN last.batch : last.batch[k] = before.store[n][i].id
         /\ (before.seen_online[n] /\ seen_online[n])
            => \A i \in DOMAIN store[n] : ~BecomesForwarded(n, i))

\* after a batch that forwarded one record the node admitted another one,
\* and an online probe with _seen_online still set left it unforwarded
C36_Witness ==
    \E n \in Nodes : \E i, j \in DOMAIN store[n] :
        /\ store[n][i].forwarded = 1
        /\ hist[n][store[n][i].id].upstream = 1
        /\ i < j
        /\ store[n][j].forwarded = 0
        /\ hist[n][store[n][j].id].upstream = 0
        /\ seen_online[n]
        /\ last.op = "probe" /\ last.node = n /\ last.online
        /\ last.batch = <<>>

(* -------------------------------- C37 ---------------------------------- *)

\* C37: the forwarder starts with _seen_online clear. In a run where no
\* probe ever observes offline, _seen_online is clear at a node exactly
\* until its first probe, and that first probe, observing online, runs a
\* forwarding batch over every record pending at the node, although no
\* offline observation came before it.
C37_FirstOnlineProbeForwards ==
    /\ (last.op = "init" => \A n \in Nodes : ~seen_online[n])
    /\ (\A n \in Nodes : \A m \in AllIds :
            ~seen_online[n] => hist[n][m].upstream = 0)
    /\ (  \A n \in Nodes :
            (ProbeStep(n, TRUE) /\ ~before.seen_online[n])
            => /\ seen_online[n]
               /\ LET pend == SelectSeq(before.store[n], PendingRow)
                  IN  last.batch = [k \in DOMAIN pend |-> pend[k].id]
               /\ \A i \in DOMAIN before.store[n] :
                     PendingRow(before.store[n][i])
                     => /\ store[n][i].forwarded = 1
                        /\ hist[n][before.store[n][i].id].upstream = 1)

\* the first probe of a node found a stored record and forwarded it
C37_Witness ==
    \E n \in Nodes : \E i \in DOMAIN store[n] :
        /\ last.op = "probe" /\ last.node = n /\ last.online
        /\ last.batch # <<>>
        /\ last.batch[1] = store[n][i].id
        /\ store[n][i].forwarded = 1
        /\ hist[n][store[n][i].id].upstream = 1
        /\ seen_online[n]

(* -------------------------------- C31 ---------------------------------- *)

\* the step is taken by node n's receive handler or by its resumed handler
HandlerStep(n) == last.node = n /\ last.op \in {"recv", "relay"}

\* log `out` holds exactly the relay of msg: a copy of msg with hops + 1
IsRelayOf(out, msg) ==
    /\ Len(out) = 1
    /\ DOMAIN out[1].pkt = DOMAIN msg \cup {"hops"}
    /\ out[1].pkt.hops = Get(msg, "hops", 0) + 1
    /\ \A f \in DOMAIN msg \ {"hops"} : out[1].pkt[f] = msg[f]

\* C31: the insert comes before every emission for an id. A node that has
\* handed a DM_ACK or a relay for id m to send_packet holds m, and holds it
\* already when the packet is handed over and, in the program that sleeps
\* between the insert and the relay, during the whole sleep. While a
\* handler is suspended for id m, no step of any task relays m at that node
\* or changes the packet the handler kept, a duplicate is not read, and the
\* handler ends either by relaying that packet with hops + 1 and the
\* original ttl, once, or cancelled without a relay.
C31_GateBeforeEmission ==
    /\ (\A n \in Nodes : \A m \in AllIds :
            /\ (hist[n][m].ack > 0 \/ hist[n][m].relay > 0) => HasId(store[n], m)
            /\ hist[n][m].relay <= 1)
    /\ (\A n \in Nodes :
            suspended[n] # NoPkt
            => /\ HasId(store[n], suspended[n].id)
               /\ hist[n][suspended[n].id].relay = 0)
    /\ (  \A n \in Nodes :
            /\ HandlerStep(n)
               => \A k \in DOMAIN last.out :
                     /\ HasId(store[n], PktId(last.out[k].pkt))
                     /\ last.op = "relay" => HasId(before.store[n], PktId(last.out[k].pkt))
            /\ before.suspended[n] # NoPkt
               => LET msg == before.suspended[n]
                  IN  \/ /\ suspended[n] = msg
                         /\ hist[n][msg.id].relay = 0
                         /\ ~(last.op = "recv" /\ last.node = n)
                      \/ /\ last.op = "relay" /\ last.node = n
                         /\ suspended[n] = NoPkt
                         /\ IsRelayOf(last.out, msg)
                         /\ hist[n][msg.id].relay = 1
                      \/ /\ last.op = "quit" /\ last.node = n
                         /\ suspended[n] = NoPkt
                         /\ hist[n][msg.id].relay = 0)

\* the handler of the older program relayed after its sleep; during the
\* sleep the node's forwarder ran a batch over the new record, and the
\* other node has relayed the id too, so copies of it are in the broadcast
\* domain
C31_Witness ==
    \E n \in Nodes : \E i \in DOMAIN store[n] :
        /\ last.op = "relay" /\ last.node = n
        /\ IsRelayOf(last.out, last.pkt)
        /\ store[n][i].id = last.pkt.id
        /\ store[n][i].forwarded = 1
        /\ hist[n][last.pkt.id].relay = 1
        /\ \E b \in Nodes \ {n} : hist[b][last.pkt.id].relay = 1
        /\ \E p \in MsgsInAir(last.pkt.id) : p # last.pkt

(* -------------------------------- C33 ---------------------------------- *)

\* node n holds id m as an SOS of its own with ttl > 0
OwnSos(n, m) ==
    \E i \in RowsOf(n, m) :
        store[n][i].origin_id = n /\ store[n][i].type = "SOS" /\ store[n][i].ttl > 0

\* the record of id m at node n is acknowledged or has used up its resends
Settled(n, m) ==
    \E i \in RowsOf(n, m) :
        store[n][i].acknowledged = 1 \/ store[n][i].resend_count = MAX_SOS_RESENDS

\* C33: when the scheduler of every node keeps running, every SOS a node
\* originated with ttl > 0 reaches a state where it is acknowledged or its
\* resend_count is MAX_SOS_RESENDS: records are never removed and a settled
\* record stays settled, so this is to say that again and again every such
\* SOS in the network is settled. The scheduler hands no packet for a
\* settled record to send_packet.
C33_SosSettles ==
    /\ []<>(\A n \in Nodes : \A m \in AllIds : OwnSos(n, m) => Settled(n, m))
    /\ [][\A n \in Nodes : \A m \in AllIds :
            Settled(n, m)
            => /\ Settled(n, m)'
               /\ hist'[n][m].resend = hist[n][m].resend
               /\ (last'.op = "sos" /\ last'.node = n)
                  => EntriesFor(last'.out, m) = {}]_vars

\* a record that was never acknowledged has used up its resends, and the
\* scheduler cycle after that handed over nothing
C33_Witness ==
    \E n \in Nodes : \E i \in DOMAIN store[n] :
        /\ OwnSos(n, store[n][i].id)
        /\ store[n][i].acknowledged = 0
        /\ store[n][i].resend_count = MAX_SOS_RESENDS
        /\ hist[n][store[n][i].id].resend = MAX_SOS_RESENDS
        /\ last.op = "sos" /\ last.node = n /\ last.out = <<>>
====
